---- MODULE Spec2Model ----
(***************************************************************************)
(* A model of declarr's ArrSyncEngine (src/declarr/arr.py): the engine     *)
(* that reconciles a declared configuration with the resources of a remote *)
(* *arr server.  The engine's state is its configuration, its tag map and  *)
(* its deferred-deletion queue; the remote server is the environment.      *)
(* Every request the engine issues is appended to the history variable     *)
(* log.                                                                    *)
(*                                                                         *)
(* Python values are represented as follows.                               *)
(*   dict used as a collection (name -> attributes): a sequence of         *)
(*       [k |-> key, v |-> value] pairs in insertion order;                *)
(*   an optional collection: [none |-> BOOLEAN, d |-> pairs];              *)
(*   attributes / request bodies: a function from field names to values;   *)
(*   a settings tree (recursive_sync): tagged nodes, see the Tree Patcher. *)
(***************************************************************************)
EXTENDS Integers, Sequences, FiniteSets, TLC

VARIABLES
    type,              \* self.type
    cfg,               \* self.cfg
    given,             \* the configuration object the caller handed to __init__
    tag_map,           \* self.tag_map
    deferred_deletes,  \* self.deferred_deletes: sequence of paths
    remote,            \* server: collection path -> sequence of resource records
    settings,          \* server: settings path -> settings object
    nextId,            \* server: next identifier it assigns
    failing,           \* requests the server answers with a status >= 300
    log,               \* history: every request issued, in order
    pc,                \* position of the running sync() / direct call
    run,               \* number of the current sync() run on this engine
    call,              \* arguments of a direct call of sync_resources / sync_tags
    start,             \* history: cfg, server and queue as the current run found them
    outcomes,          \* history: how each finished run ended ("done" / "raised")
    raisedAt           \* history: the phase in which the last raise happened

vars == <<type, cfg, given, tag_map, deferred_deletes, remote, settings, nextId,
          failing, log, pc, run, call, start, outcomes, raisedAt>>

(***************************************************************************)
(* Bounds                                                                  *)
(***************************************************************************)
MaxRuns == 2      \* sync() runs (or direct calls) on one engine
MaxFail == 1      \* failing request kinds chosen per behaviour
MaxTags == 2      \* length of the declared top-level tag list (direct sync_tags calls)
MaxFields == 2    \* fields of a field mapping (the two field conversions on their own)
MaxEntries == 2   \* entries of the desired collection (direct sync_contracts calls)

(***************************************************************************)
(* Generic helpers                                                         *)
(***************************************************************************)
Range(s) == {s[i] : i \in DOMAIN s}

EmptyBody == [f \in {} |-> 0]

\* {**base, **top}
Overlay(base, top) ==
    [f \in DOMAIN base \cup DOMAIN top |->
        IF f \in DOMAIN top THEN top[f] ELSE base[f]]

\* v with the field f set
WithField(v, f, x) == [g \in DOMAIN v \cup {f} |-> IF g = f THEN x ELSE v[g]]

\* d.get(f, dflt) on an attribute mapping
GetOr(v, f, dflt) == IF f \in DOMAIN v THEN v[f] ELSE dflt

NoneD == [none |-> TRUE, d |-> <<>>]
SomeD(pairs) == [none |-> FALSE, d |-> pairs]

Keys(d) == {d[i].k : i \in DOMAIN d}
Lookup(d, k) == d[CHOOSE i \in DOMAIN d : d[i].k = k].v

\* declarr.utils.map_values: apply F to every (key, value), keeping the order
MapValues(d, F(_, _)) == [i \in DOMAIN d |-> [k |-> d[i].k, v |-> F(d[i].k, d[i].v)]]

\* declarr.utils.to_dict: index a list of records by a field; a repeated key
\* keeps its first position and takes the last value
RECURSIVE ToDictFrom(_, _, _)
ToDictFrom(acc, list, key) ==
    IF list = <<>> THEN acc
    ELSE LET x == Head(list)
             kx == x[key]
             acc1 == IF kx \in Keys(acc)
                     THEN [i \in DOMAIN acc |->
                             IF acc[i].k = kx THEN [k |-> kx, v |-> x] ELSE acc[i]]
                     ELSE Append(acc, [k |-> kx, v |-> x])
         IN ToDictFrom(acc1, Tail(list), key)

to_dict(list, key) == ToDictFrom(<<>>, list, key)

\* declarr.utils.unique: drop repeated elements, keeping first occurrences
RECURSIVE UniqueFrom(_, _)
UniqueFrom(acc, s) ==
    IF s = <<>> THEN acc
    ELSE UniqueFrom(IF Head(s) \in Range(acc) THEN acc ELSE Append(acc, Head(s)),
                    Tail(s))

unique(s) == UniqueFrom(<<>>, s)

\* declarr.utils.del_keys
del_keys(v, ks) == [f \in DOMAIN v \ ks |-> v[f]]

\* the fields of an attribute mapping whose values are themselves mappings
DictFields == {"fields"}

\* an ordered mapping (pairs) top merged over base: base's keys keep their
\* places and take top's values, the keys only top has follow in top's order
OverlayPairs(base, top) ==
    [i \in DOMAIN base |->
        IF base[i].k \in Keys(top) THEN [k |-> base[i].k, v |-> Lookup(top, base[i].k)]
        ELSE base[i]]
    \o SelectSeq(top, LAMBDA e : e.k \notin Keys(base))

\* declarr.utils.deep_merge(a, b): a merged over b, recursively for mappings
deep_merge(a, b) ==
    [f \in DOMAIN a \cup DOMAIN b |->
        IF f \in DOMAIN a /\ f \in DOMAIN b /\ f \in DictFields
        THEN OverlayPairs(b[f], a[f])
        ELSE IF f \in DOMAIN a THEN a[f] ELSE b[f]]

\* lower() left out
Lower_Missing(s) == s

\* str.lower() on the labels of the model
Lower(s) == CASE s = "HD" -> "hd"
              [] s = "Hd" -> "hd"
              [] OTHER -> s

\* f"{path}/{id}"
IdPath(path, id) == path \o "/" \o ToString(id)

(***************************************************************************)
(* The remote server and the transport                                     *)
(*                                                                         *)
(* A world w is the part of the state a sequence of requests threads       *)
(* through: the server (remote, settings, nextId), the log and the engine  *)
(* fields (dd = deferred_deletes, tag_map, cfg) with the caller's object   *)
(* (given), whose nested values self.cfg shares.  err is set when a        *)
(* request raised; every later request of the same handler is then skipped *)
(* (the exception propagates) until a handler catches it.                  *)
(***************************************************************************)
World == [remote |-> remote, settings |-> settings, nextId |-> nextId,
          log |-> log, dd |-> deferred_deletes, tag_map |-> tag_map, cfg |-> cfg,
          given |-> given, err |-> FALSE]

Raise(w) == [w EXCEPT !.err = TRUE]

\* the name under which a body is known to the failure oracle
BodyName(body) ==
    IF "name" \in DOMAIN body THEN body["name"]
    ELSE IF "label" \in DOMAIN body THEN body["label"]
    ELSE IF "path" \in DOMAIN body THEN body["path"]
    ELSE ""

Entry(m, path, body) == [m |-> m, path |-> path, body |-> body, ph |-> pc, run |-> run]

\* the stored resource of collection res with identifier path res/id, if any
Stored(w, res, path) ==
    {i \in DOMAIN w.remote[res] :
        /\ "id" \in DOMAIN w.remote[res][i]
        /\ IdPath(res, w.remote[res][i]["id"]) = path}

\* _base_req: log the request, send it, raise unless status < 300
Req(w, m, path, body, ok, after) ==
    IF w.err THEN w
    ELSE LET w1 == [w EXCEPT !.log = Append(@, Entry(m, path, body))]
         IN IF ok THEN [w1 EXCEPT !.remote = after.remote, !.nextId = after.nextId,
                                  !.settings = after.settings]
            ELSE [w1 EXCEPT !.err = TRUE]

get(w, path) ==
    Req(w, "GET", path, EmptyBody, <<"GET", path, "">> \notin failing, w)

post(w, path, body) ==
    Req(w, "POST", path, body,
        /\ <<"POST", path, BodyName(body)>> \notin failing
        /\ path \in DOMAIN w.remote,
        IF path \in DOMAIN w.remote
        THEN [w EXCEPT !.remote[path] = Append(@, WithField(body, "id", w.nextId)),
                       !.nextId = @ + 1]
        ELSE w)

\* PUT path/id for a collection resource
put(w, res, id, body) ==
    LET path == IdPath(res, id)
        hit == Stored(w, res, path)
    IN Req(w, "PUT", path, body,
           /\ <<"PUT", res, BodyName(body)>> \notin failing
           /\ hit # {},
           [w EXCEPT !.remote[res] =
                [i \in DOMAIN @ |-> IF i \in hit THEN WithField(body, "id", id) ELSE @[i]]])

\* the collection a path res/id belongs to, if any
Owner(w, path) == {res \in DOMAIN w.remote : Stored(w, res, path) # {}}

RemoveAt(s, hit) ==
    LET keep == {i \in DOMAIN s : i \notin hit}
        F[i \in 0..Len(s)] ==
            IF i = 0 THEN <<>>
            ELSE IF i \in keep THEN Append(F[i - 1], s[i]) ELSE F[i - 1]
    IN F[Len(s)]

delete(w, path) ==
    LET own == Owner(w, path)
        res == CHOOSE r \in own : TRUE
        hit == Stored(w, res, path)
        nm  == BodyName(w.remote[res][CHOOSE i \in hit : TRUE])
    IN Req(w, "DELETE", path, EmptyBody,
           own # {} /\ <<"DELETE", res, nm>> \notin failing,
           IF own # {} THEN [w EXCEPT !.remote[res] = RemoveAt(@, hit)] ELSE w)

\* deferr_delete
deferr_delete(w, path) ==
    IF w.err THEN w ELSE [w EXCEPT !.dd = Append(@, path)]

(***************************************************************************)
(* sync_tags                                                               *)
(***************************************************************************)
RECURSIVE Flatten(_)
Flatten(ss) == IF ss = <<>> THEN <<>> ELSE Head(ss) \o Flatten(Tail(ss))

\* the "tags" lists of the values of cfg[k], for a key that is present and not None
NestedTags(c, k) ==
    IF k \notin DOMAIN c \/ c[k].none THEN <<>>
    ELSE Flatten([i \in DOMAIN c[k].d |-> GetOr(c[k].d[i].v, "tags", <<>>)])

TagKeys == <<"indexer", "indexerProxy", "downloadClient", "applications">>

\* lidarr: every root folder must carry defaultTags, and rootFolder must not be None
LidarrTagsRaise(c) ==
    \/ "rootFolder" \notin DOMAIN c
    \/ c["rootFolder"].none
    \/ \E i \in DOMAIN c["rootFolder"].d : "defaultTags" \notin DOMAIN c["rootFolder"].d[i].v

LidarrTags(c) ==
    Flatten([i \in DOMAIN c["rootFolder"].d |-> c["rootFolder"].d[i].v["defaultTags"]])

RECURSIVE PostMissingTags(_, _, _)
PostMissingTags(w, labels, existing) ==
    IF labels = <<>> \/ w.err THEN w
    ELSE PostMissingTags(
            IF Head(labels) \notin existing
            THEN post(w, "/tag", [label |-> Head(labels)])
            ELSE w,
            Tail(labels), existing)

\* [tag.lower() for tag in unique(tags)]
TagLabels(tags) == LET u == unique(tags) IN [i \in DOMAIN u |-> Lower(u[i])]

\* {v["label"]: v["id"] for v in list}: the last record of a label wins
LabelIds(list) ==
    [l \in {list[i]["label"] : i \in DOMAIN list} |->
        LET last == CHOOSE i \in DOMAIN list :
                        /\ list[i]["label"] = l
                        /\ \A j \in DOMAIN list : list[j]["label"] = l => j <= i
        IN list[last]["id"]]

sync_tags(w) ==
    LET c == w.cfg
        t0 == GetOr(c, "tag", <<>>)
        t1 == t0 \o Flatten([i \in DOMAIN TagKeys |-> NestedTags(c, TagKeys[i])])
        lraise == type = "lidarr" /\ LidarrTagsRaise(c)
        tags == IF type = "lidarr" /\ ~lraise THEN t1 \o LidarrTags(c) ELSE t1
        \* tags += ... extends the list in place when the key is present, and
        \* that list is the one the caller's configuration holds
        c1 == IF "tag" \in DOMAIN c THEN [c EXCEPT !["tag"] = tags] ELSE c
        g1 == IF "tag" \in DOMAIN w.given THEN [w.given EXCEPT !["tag"] = tags]
              ELSE w.given
        w0 == [w EXCEPT !.cfg = c1, !.given = g1]
    IN IF lraise THEN Raise(w0)
       ELSE LET w1 == get(w0, "/tag")
                existing == {w0.remote["/tag"][i]["label"] : i \in DOMAIN w0.remote["/tag"]}
                w2 == PostMissingTags(w1, TagLabels(tags), existing)
                w3 == get(w2, "/tag")
            IN IF w3.err THEN w3
               ELSE [w3 EXCEPT !.tag_map = LabelIds(w3.remote["/tag"])]

(***************************************************************************)
(* sync_resources                                                          *)
(***************************************************************************)
\* a defaults function that raised leaves this marker in its result
RaiseMark == [raise |-> TRUE]
Raised(v) == "raise" \in DOMAIN v
AnyRaised(d) == \E i \in DOMAIN d : Raised(d[i].v)

RECURSIVE QueueOrphans(_, _, _, _)
QueueOrphans(w, path, existing, wanted) ==
    IF existing = <<>> THEN w
    ELSE QueueOrphans(
            IF Head(existing).k \notin wanted
            THEN deferr_delete(w, IdPath(path, Head(existing).v["id"]))
            ELSE w,
            path, Tail(existing), wanted)

\* ApplyOne with the overlay reversed: the existing attributes win
ApplyOne_ExistingWins(w, path, existing, name, dat) ==
    IF name \in Keys(existing)
    THEN put(w, path, Lookup(existing, name)["id"], Overlay(dat, Lookup(existing, name)))
    ELSE post(w, path, dat)

\* one iteration of the create/update loop of sync_resources
ApplyOne(w, path, existing, name, dat) ==
    IF name \in Keys(existing)
    THEN put(w, path, Lookup(existing, name)["id"], Overlay(Lookup(existing, name), dat))
    ELSE post(w, path, dat)

\* Caught without the log-and-continue branch: every failure is raised again
Caught_Reraise(w, allow_error) == w

\* Caught without the re-raise: every failure is swallowed
Caught_Swallow(w, allow_error) == [w EXCEPT !.err = FALSE]

\* except Exception as e: if not allow_error: raise e
Caught(w, allow_error) == IF w.err /\ allow_error THEN [w EXCEPT !.err = FALSE] ELSE w

RECURSIVE ApplyEntries(_, _, _, _, _)
ApplyEntries(w, path, existing, c, allow_error) ==
    IF c = <<>> \/ w.err THEN w
    ELSE ApplyEntries(
            Caught(ApplyOne(w, path, existing, Head(c).k, Head(c).v), allow_error),
            path, existing, Tail(c), allow_error)

\* {"name": k, **v}
WithName(k, v) == Overlay([name |-> k], v)

\* the tag labels of the declared entry (strings) are looked up lower-cased;
\* identifiers taken over from the existing resource or the schema pass through
TagLookup(tm, t) == tm[Lower(t)]

TagKnown(tm, t) == Lower(t) \in DOMAIN tm

AppProfileDefaults(k, v) ==
    Overlay([enableRss |-> TRUE, enableAutomaticSearch |-> TRUE,
             enableInteractiveSearch |-> TRUE, minimumSeeders |-> 1], v)

MinOf(S) == CHOOSE x \in S : \A y \in S : x <= y

\* gen_profile_id: a declared appProfileId is a profile name, one taken over
\* from the existing indexer or the schema is an identifier
gen_profile_id(profile_map, declared, v) ==
    LET ids == {profile_map[n] : n \in DOMAIN profile_map}
    IN IF ids = {} THEN RaiseMark
       ELSE IF "appProfileId" \notin DOMAIN v THEN WithField(v, "appProfileId", MinOf(ids))
       ELSE IF ~declared
            THEN WithField(v, "appProfileId",
                           IF v["appProfileId"] \in ids THEN v["appProfileId"]
                           ELSE MinOf(ids))
       ELSE IF v["appProfileId"] \in DOMAIN profile_map
            THEN WithField(v, "appProfileId", profile_map[v["appProfileId"]])
       ELSE RaiseMark

\* gen_formats_items
gen_formats_items(formats, v) ==
    IF "formatItems" \notin DOMAIN v THEN RaiseMark
    ELSE LET id_score_map == to_dict(v["formatItems"], "name")
         IN WithField(v, "formatItems",
                [i \in DOMAIN formats |->
                    [name |-> formats[i]["name"],
                     format |-> formats[i]["id"],
                     score |-> IF formats[i]["name"] \in Keys(id_score_map)
                               THEN Lookup(id_score_map, formats[i]["name"])["score"]
                               ELSE 0]])

\* the defaults of the lidarr root folders: labels and profile names are
\* replaced by identifiers; a missing one raises KeyError
LidarrRootDefaults(tm, qmap, mmap, v) ==
    LET ts == GetOr(v, "tags", <<>>)
    IN IF \/ \E j \in DOMAIN ts : ~TagKnown(tm, ts[j])
          \/ "defaultQualityProfileId" \notin DOMAIN v
          \/ "defaultMetadataProfileId" \notin DOMAIN v
       THEN RaiseMark
       ELSE IF \/ v["defaultQualityProfileId"] \notin DOMAIN qmap
               \/ v["defaultMetadataProfileId"] \notin DOMAIN mmap
       THEN RaiseMark
       ELSE Overlay(v, [defaultTags |-> [j \in DOMAIN ts |-> TagLookup(tm, ts[j])],
                        defaultQualityProfileId |-> qmap[v["defaultQualityProfileId"]],
                        defaultMetadataProfileId |-> mmap[v["defaultMetadataProfileId"]]])

\* The callables handed to sync_resources / sync_contracts as `defaults`, as
\* data: kind names the callable, the other fields are the variables it
\* closes over.  Defaults(f, k, v) is the call f(k, v).
Defaults(f, k, v) ==
    CASE f.kind = "identity" -> v
      [] f.kind = "appProfile" -> AppProfileDefaults(k, v)
      [] f.kind = "gen_profile_id" ->
            gen_profile_id(f.profile_map, "appProfileId" \in DOMAIN Lookup(f.declared, k), v)
      [] f.kind = "gen_formats_items" -> gen_formats_items(f.formats, v)
      [] f.kind = "rootFolder" -> LidarrRootDefaults(f.tag_map, f.qmap, f.mmap, v)

\* the default argument: defaults=lambda k, v: v
Identity == [kind |-> "identity"]

\* sync_resources without its "if cfg is None: return"
sync_resources_NoGuard(w, path, c, defaults, allow_error, key) ==
    IF w.err THEN w
    ELSE LET w1 == get(w, path)
         IN IF w1.err THEN w1
            ELSE LET existing == to_dict(w1.remote[path], key)
                     w2 == QueueOrphans(w1, path, existing, Keys(c.d))
                     c1 == MapValues(c.d, LAMBDA k, v : Defaults(defaults, k, v))
                     c2 == MapValues(c1, WithName)
                 IN IF AnyRaised(c1) THEN Raise(w2)
                    ELSE ApplyEntries(w2, path, existing, c2, allow_error)

sync_resources(w, path, c, defaults, allow_error, key) ==
    IF c.none \/ w.err THEN w
    ELSE LET w1 == get(w, path)
         IN IF w1.err THEN w1
            ELSE LET existing == to_dict(w1.remote[path], key)
                     w2 == QueueOrphans(w1, path, existing, Keys(c.d))
                     c1 == MapValues(c.d, LAMBDA k, v : Defaults(defaults, k, v))
                     c2 == MapValues(c1, WithName)
                 IN IF AnyRaised(c1) THEN Raise(w2)
                    ELSE ApplyEntries(w2, path, existing, c2, allow_error)

(***************************************************************************)
(* sync_contracts                                                          *)
(*                                                                         *)
(* A field mapping is an ordered mapping (pairs, as a dict keeps insertion  *)
(* order) from a field name to an optional value: [value |-> x], or the    *)
(* empty mapping for None.  On the wire a field is {name, value?}.         *)
(***************************************************************************)
NoValue == [f \in {} |-> 0]

\* {v["name"]: v.get("value", None) for v in fields}: a repeated name keeps
\* its first position and takes the last value
RECURSIVE FieldMapFrom(_, _)
FieldMapFrom(acc, wire) ==
    IF wire = <<>> THEN acc
    ELSE LET x == Head(wire)
             val == IF "value" \in DOMAIN x THEN [value |-> x["value"]] ELSE NoValue
             acc1 == IF x["name"] \in Keys(acc)
                     THEN [i \in DOMAIN acc |->
                             IF acc[i].k = x["name"] THEN [k |-> acc[i].k, v |-> val]
                             ELSE acc[i]]
                     ELSE Append(acc, [k |-> x["name"], v |-> val])
         IN FieldMapFrom(acc1, Tail(wire))

FieldMap(wire) == FieldMapFrom(<<>>, wire)

\* FieldWire that sends a None value as a value
FieldWire_NullSent(fm) ==
    [i \in DOMAIN fm |->
        [name |-> fm[i].k,
         value |-> IF "value" \in DOMAIN fm[i].v THEN fm[i].v["value"] ELSE "None"]]

\* [{"name": k} if v is None else {"name": k, "value": v} for k, v in fields.items()]
FieldWire(fm) ==
    [i \in DOMAIN fm |->
        IF "value" \in DOMAIN fm[i].v
        THEN [name |-> fm[i].k, value |-> fm[i].v["value"]]
        ELSE [name |-> fm[i].k]]

\* the field list of an existing / schema record left out
WithFieldMap_NoFields(k, val) == WithField(val, "fields", <<>>)

\* existing / schema records with their field list turned into a mapping
WithFieldMap(k, val) == WithField(val, "fields", FieldMap(val["fields"]))

\* the defaults without "enable"
WithEnableName_NameOnly(k, v) == Overlay([name |-> k], v)

\* {"enable": True, "name": k, **v}
WithEnableName(k, v) == Overlay([enable |-> TRUE, name |-> k], v)

SchemaEntry(k, v) == del_keys(WithFieldMap(k, v), {"presets"})

\* schema[v[scheme_key[1]]] raises KeyError for an entry without the
\* discriminator or with one the schema does not list
SchemaMissing(c, schema, sk1) ==
    \E i \in DOMAIN c : \/ sk1 \notin DOMAIN c[i].v
                        \/ c[i].v[sk1] \notin Keys(schema)

Declared(orig, k) == k \in Keys(orig) /\ "tags" \in DOMAIN Lookup(orig, k)

TagsMissing(c, orig, tm) ==
    \E i \in DOMAIN c :
        /\ Declared(orig, c[i].k)
        /\ \E j \in DOMAIN c[i].v["tags"] : ~TagKnown(tm, c[i].v["tags"][j])

ResolveTags(orig, tm, k, obj) ==
    LET ts == GetOr(obj, "tags", <<>>)
    IN IF Declared(orig, k) THEN [j \in DOMAIN ts |-> TagLookup(tm, ts[j])] ELSE ts

\* the last map_values of sync_contracts: tags resolved, fields on the wire
WireBody(orig, tm, k, obj) ==
    Overlay(obj, [tags |-> ResolveTags(orig, tm, k, obj),
                  fields |-> FieldWire(GetOr(obj, "fields", <<>>))])

RECURSIVE ApplyContracts(_, _, _, _)
ApplyContracts(w, path, existing, c) ==
    IF c = <<>> \/ w.err THEN w
    ELSE ApplyContracts(
            IF Head(c).k \in Keys(existing)
            THEN put(w, path, Lookup(existing, Head(c).k)["id"], Head(c).v)
            ELSE post(w, path, Head(c).v),
            path, existing, Tail(c))

\* sync_contracts with the orphans queued before the entries are resolved
sync_contracts_QueueFirst(w, path, c, defaults, sk0, sk1) ==
    IF c.none \/ w.err THEN w
    ELSE
    LET w1 == get(w, path)
        existing == MapValues(to_dict(w.remote[path], "name"), WithFieldMap)
        c1 == MapValues(c.d, LAMBDA k, v :
                  deep_merge(v, IF k \in Keys(existing) THEN Lookup(existing, k)
                                ELSE EmptyBody))
        c2 == MapValues(c1, WithEnableName)
        w2 == get(w1, path \o "/schema")
        schema == MapValues(to_dict(w.remote[path \o "/schema"], sk0), SchemaEntry)
        w3 == QueueOrphans(w2, path, existing, Keys(c.d))
    IN IF w2.err THEN w2
       ELSE IF SchemaMissing(c2, schema, sk1) THEN Raise(w3)
       ELSE
       LET c3 == MapValues(c2, LAMBDA k, v : deep_merge(v, Lookup(schema, v[sk1])))
           c4 == MapValues(c3, WithEnableName)
           c5 == MapValues(c4, LAMBDA k, v : Defaults(defaults, k, v))
       IN IF AnyRaised(c5) THEN Raise(w3)
          ELSE IF TagsMissing(c5, c.d, w.tag_map) THEN Raise(w3)
          ELSE
          LET c6 == MapValues(c5, LAMBDA k, obj : WireBody(c.d, w.tag_map, k, obj))
          IN ApplyContracts(w3, path, existing, c6)

sync_contracts(w, path, c, defaults, sk0, sk1) ==
    IF c.none \/ w.err THEN w
    ELSE
    LET w1 == get(w, path)
        existing == MapValues(to_dict(w.remote[path], "name"), WithFieldMap)
        c1 == MapValues(c.d, LAMBDA k, v :
                  deep_merge(v, IF k \in Keys(existing) THEN Lookup(existing, k)
                                ELSE EmptyBody))
        c2 == MapValues(c1, WithEnableName)
        w2 == get(w1, path \o "/schema")
        schema == MapValues(to_dict(w.remote[path \o "/schema"], sk0), SchemaEntry)
    IN IF w2.err THEN w2
       ELSE IF SchemaMissing(c2, schema, sk1) THEN Raise(w2)
       ELSE
       LET c3 == MapValues(c2, LAMBDA k, v : deep_merge(v, Lookup(schema, v[sk1])))
           c4 == MapValues(c3, WithEnableName)
           c5 == MapValues(c4, LAMBDA k, v : Defaults(defaults, k, v))
       IN IF AnyRaised(c5) THEN Raise(w2)
          ELSE IF TagsMissing(c5, c.d, w.tag_map) THEN Raise(w2)
          ELSE
          LET c6 == MapValues(c5, LAMBDA k, obj : WireBody(c.d, w.tag_map, k, obj))
              w3 == QueueOrphans(w2, path, existing, Keys(c6))
          IN ApplyContracts(w3, path, existing, c6)

(***************************************************************************)
(* recursive_sync (the generic tree patcher)                               *)
(*                                                                         *)
(* A settings tree is made of tagged nodes, so that isinstance can be      *)
(* modelled: Prim(x), Dict(<<[k, v], ...>>) and List(<<body, ...>>).       *)
(***************************************************************************)
Prim(x) == [t |-> "prim", x |-> x]
Dict(kv) == [t |-> "dict", kv |-> kv]
List(items) == [t |-> "list", items |-> items]

\* GET / PUT of a settings object
get_obj(w, path) ==
    Req(w, "GET", path, EmptyBody,
        <<"GET", path, "">> \notin failing /\ path \in DOMAIN w.settings, w)

put_obj(w, path, body) ==
    Req(w, "PUT", path, body,
        <<"PUT", path, "">> \notin failing /\ path \in DOMAIN w.settings,
        IF path \in DOMAIN w.settings THEN [w EXCEPT !.settings[path] = body] ELSE w)

\* declarr.utils.deep_merge on trees: a over b, mappings merged key by key
RECURSIVE TreeMerge(_, _)
TreeMerge(a, b) ==
    IF a.t = "dict" /\ b.t = "dict"
    THEN LET both == [i \in DOMAIN b.kv |->
                        [k |-> b.kv[i].k,
                         v |-> IF b.kv[i].k \in Keys(a.kv)
                               THEN TreeMerge(Lookup(a.kv, b.kv[i].k), b.kv[i].v)
                               ELSE b.kv[i].v]]
             new == SelectSeq(a.kv, LAMBDA e : e.k \notin Keys(b.kv))
         IN Dict(both \o new)
    ELSE a

\* PostAll that stops after the first element
PostAll_FirstOnly(w, resource, items) ==
    IF items = <<>> \/ w.err THEN w ELSE post(w, resource, Head(items))

RECURSIVE PostAll(_, _, _)
PostAll(w, resource, items) ==
    IF items = <<>> \/ w.err THEN w
    ELSE PostAll(post(w, resource, Head(items)), resource, Tail(items))

has_primative_val(obj) == \E i \in DOMAIN obj.kv : obj.kv[i].v.t = "prim"

\* obj.pop("__req", None)
PopReq(obj) == Dict(SelectSeq(obj.kv, LAMBDA e : e.k # "__req"))

\* the result is the world and the node as the call leaves it (pop mutates it)
RECURSIVE recursive_sync(_, _, _)
RECURSIVE SyncChildren(_, _, _, _)
recursive_sync(w, obj, resource) ==
    IF w.err THEN [w |-> w, obj |-> obj]
    ELSE IF obj.t = "list" THEN [w |-> PostAll(w, resource, obj.items), obj |-> obj]
    ELSE IF has_primative_val(obj) \/ "__req" \in Keys(obj.kv)
    THEN LET popped == PopReq(obj)
             w1 == get_obj(w, resource)
             w2 == IF w1.err THEN w1
                   ELSE put_obj(w1, resource, TreeMerge(popped, w.settings[resource]))
         IN [w |-> w2, obj |-> popped]
    ELSE SyncChildren(w, obj, resource, 1)

SyncChildren(w, obj, resource, i) ==
    IF i > Len(obj.kv) \/ w.err THEN [w |-> w, obj |-> obj]
    ELSE LET r == recursive_sync(w, obj.kv[i].v, resource \o "/" \o obj.kv[i].k)
         IN SyncChildren(r.w, Dict([obj.kv EXCEPT ![i].v = r.obj]), resource, i + 1)

(***************************************************************************)
(* compile_formats (the external compiler is modelled by its interface)    *)
(***************************************************************************)
\* cfg["qualityProfile"].keys() raises when the profiles are None
CompileRaises(c) == c["qualityProfile"].none

CompiledFormat(k, v) == WithName(k, v)
CompiledProfile(k, v) == Overlay([name |-> k, formatItems |-> <<>>], v)

compile_formats(c) ==
    [c EXCEPT !["customFormat"] =
                  IF @.none THEN @ ELSE SomeD(MapValues(@.d, CompiledFormat)),
              !["qualityProfile"] =
                  IF @.none THEN @ ELSE SomeD(MapValues(@.d, CompiledProfile))]

(***************************************************************************)
(* sync(): the orchestrator, one action per phase                          *)
(***************************************************************************)
\* Phases with the config tree patch moved ahead of the resource phases
Phases_ConfigFirst ==
    <<"defaults", "compile", "config", "tags", "downloadClient", "appProfile",
      "indexer", "applications", "indexerProxy", "qualityDefinition", "customFormat",
      "qualityProfile", "rootFolderSR", "rootFolderL", "notification", "drain",
      "done">>

Phases == <<"defaults", "compile", "tags", "downloadClient", "appProfile", "indexer",
            "applications", "indexerProxy", "qualityDefinition", "customFormat",
            "qualityProfile", "rootFolderSR", "rootFolderL", "notification",
            "config", "drain", "done">>

\* the "if self.type in (...)" gates of sync()
Applies(p) ==
    CASE p \in {"compile", "customFormat", "qualityProfile", "rootFolderSR"} ->
            type \in {"sonarr", "radarr"}
      [] p \in {"appProfile", "indexer", "applications", "indexerProxy"} ->
            type = "prowlarr"
      [] p = "qualityDefinition" -> type \in {"sonarr", "radarr", "lidarr"}
      [] p = "rootFolderL" -> type = "lidarr"
      [] OTHER -> TRUE

PhaseIndex(p) == CHOOSE i \in DOMAIN Phases : Phases[i] = p

\* the phase that follows p for this server type
After(p) ==
    LET later == {j \in DOMAIN Phases : j > PhaseIndex(p) /\ Applies(Phases[j])}
    IN Phases[CHOOSE j \in later : \A m \in later : j <= m]

Commit(w, nxt) ==
    /\ remote' = w.remote
    /\ settings' = w.settings
    /\ nextId' = w.nextId
    /\ log' = w.log
    /\ deferred_deletes' = w.dd
    /\ tag_map' = w.tag_map
    /\ cfg' = w.cfg
    /\ given' = w.given
    /\ raisedAt' = IF w.err THEN pc ELSE raisedAt
    /\ pc' = IF w.err THEN "raised" ELSE nxt
    /\ outcomes' = IF w.err THEN Append(outcomes, "raised")
                   ELSE IF nxt \in {"done", "returned"} THEN Append(outcomes, "done")
                   ELSE outcomes
    /\ UNCHANGED <<type, failing, call, start>>

\* self.cfg[k]: KeyError when the key is missing
Missing(k) == k \notin DOMAIN cfg

\* what a run (or a direct call) finds when it starts
Snapshot == [cfg |-> cfg, given |-> given, remote |-> remote, settings |-> settings,
             dd |-> deferred_deletes, tag_map |-> tag_map, at |-> Len(log)]

\* Ping without raise_for_status(): the run goes on whatever the answer
Ping_NotFatal ==
    /\ pc \in {"idle", "done", "raised"}
    /\ run < MaxRuns
    /\ run' = run + 1
    /\ log' = Append(log, [m |-> "GET", path |-> "/ping", body |-> EmptyBody,
                           ph |-> "ping", run |-> run + 1])
    /\ pc' = "defaults"
    /\ start' = Snapshot
    /\ UNCHANGED <<type, cfg, given, tag_map, deferred_deletes, remote, settings,
                   nextId, failing, call, outcomes, raisedAt>>

\* self.r.get(self.base_url + "/ping").raise_for_status()
Ping ==
    /\ pc \in {"idle", "done", "raised"}
    /\ run < MaxRuns
    /\ run' = run + 1
    /\ log' = Append(log, [m |-> "GET", path |-> "/ping", body |-> EmptyBody,
                           ph |-> "ping", run |-> run + 1])
    /\ pc' = IF <<"GET", "/ping", "">> \in failing THEN "raised" ELSE "defaults"
    /\ outcomes' = IF <<"GET", "/ping", "">> \in failing THEN Append(outcomes, "raised")
                   ELSE outcomes
    /\ start' = Snapshot
    /\ raisedAt' = IF <<"GET", "/ping", "">> \in failing THEN "ping" ELSE raisedAt
    /\ UNCHANGED <<type, cfg, given, tag_map, deferred_deletes, remote, settings,
                   nextId, failing, call>>

\* the keys sync() defaults when the caller omits them
DefaultCfg ==
    [k \in {"downloadClient", "appProfile", "applications", "indexer", "indexerProxie",
            "customFormat", "qualityProfile", "rootFolder", "importList",
            "notification"} |-> NoneD]
    @@ [qualityDefinition |-> <<>>]

DefaultKeys ==
    /\ pc = "defaults"
    /\ cfg' = Overlay(DefaultCfg, cfg)
    /\ pc' = After("defaults")
    /\ UNCHANGED <<type, given, tag_map, deferred_deletes, remote, settings, nextId,
                   failing, log, run, call, start, outcomes, raisedAt>>

CompileFormats ==
    /\ pc = "compile"
    /\ IF CompileRaises(cfg)
       THEN Commit(Raise(World), "raised")
       ELSE Commit([World EXCEPT !.cfg = compile_formats(cfg)], After("compile"))
    /\ UNCHANGED run

SyncTags ==
    /\ pc = "tags"
    /\ Commit(sync_tags(World), After("tags"))
    /\ UNCHANGED run

\* a phase that is one sync_contracts call with the default arguments
ContractPhase(p, path, k) ==
    /\ pc = p
    /\ IF Missing(k)
       THEN Commit(Raise(World), "raised")
       ELSE Commit(sync_contracts(World, path, cfg[k], Identity,
                                  "implementation", "implementation"), After(p))
    /\ UNCHANGED run

DownloadClient == ContractPhase("downloadClient", "/downloadClient", "downloadClient")

AppProfile ==
    /\ pc = "appProfile"
    /\ Commit(sync_resources(World, "/appprofile", cfg["appProfile"],
                             [kind |-> "appProfile"], FALSE, "name"),
              After("appProfile"))
    /\ UNCHANGED run

\* {v["name"]: v["id"] for v in list if allowed is None or v["name"] in allowed}
NameIds(list, allowed) ==
    LET ok == {i \in DOMAIN list : allowed.none \/ list[i]["name"] \in Keys(allowed.d)}
    IN [n \in {list[i]["name"] : i \in ok} |->
           list[CHOOSE i \in ok : /\ list[i]["name"] = n
                                  /\ \A j \in ok : list[j]["name"] = n => j <= i]["id"]]

Indexer ==
    /\ pc = "indexer"
    /\ LET w1 == get(World, "/appprofile")
           profile_map == NameIds(remote["/appprofile"], cfg["appProfile"])
           orig == cfg["indexer"]
       IN Commit(sync_contracts(w1, "/indexer", cfg["indexer"],
                     [kind |-> "gen_profile_id", profile_map |-> profile_map,
                      declared |-> orig.d],
                     "name", "indexerName"),
                 After("indexer"))
    /\ UNCHANGED run

Applications == ContractPhase("applications", "/applications", "applications")

IndexerProxy == ContractPhase("indexerProxy", "/indexerProxy", "indexerProxy")

RECURSIVE PutDefinitions(_, _, _)
PutDefinitions(w, qmap, defs) ==
    IF defs = <<>> \/ w.err THEN w
    ELSE IF Head(defs).k \notin Keys(qmap) THEN Raise(w)
    ELSE PutDefinitions(
            put(w, "/qualityDefinition", Lookup(qmap, Head(defs).k)["id"],
                deep_merge(Head(defs).v, Lookup(qmap, Head(defs).k))),
            qmap, Tail(defs))

QualityDefinition ==
    /\ pc = "qualityDefinition"
    /\ LET w1 == get(World, "/qualityDefinition")
           qmap == to_dict(remote["/qualityDefinition"], "title")
       IN Commit(PutDefinitions(w1, qmap, cfg["qualityDefinition"]),
                 After("qualityDefinition"))
    /\ UNCHANGED run

CustomFormat ==
    /\ pc = "customFormat"
    /\ Commit(sync_resources(World, "/customformat", cfg["customFormat"],
                             Identity, TRUE, "name"), After("customFormat"))
    /\ UNCHANGED run

QualityProfile ==
    /\ pc = "qualityProfile"
    /\ LET w1 == get(World, "/customformat")
           formats == remote["/customformat"]
       IN Commit(sync_resources(w1, "/qualityprofile", cfg["qualityProfile"],
                     [kind |-> "gen_formats_items", formats |-> formats],
                     TRUE, "name"),
                 After("qualityProfile"))
    /\ UNCHANGED run

\* sonarr / radarr root folders: the one reconciliation that deletes at once
RECURSIVE DeleteUnwanted(_, _, _, _)
DeleteUnwanted(w, path, existing, wanted) ==
    IF existing = <<>> \/ w.err THEN w
    ELSE DeleteUnwanted(
            IF Head(existing).k \notin wanted
            THEN delete(w, IdPath(path, Head(existing).v["id"]))
            ELSE w,
            path, Tail(existing), wanted)

RECURSIVE PostNew(_, _, _, _)
PostNew(w, path, existing, c) ==
    IF c = <<>> \/ w.err THEN w
    ELSE PostNew(
            IF Head(c).k \notin Keys(existing) THEN post(w, path, Head(c).v) ELSE w,
            path, existing, Tail(c))

\* {v: {"path": v} for v in self.cfg.get("rootFolder", [])}
PathEntry(k, v) == [path |-> k]

RootFolderSR ==
    /\ pc = "rootFolderSR"
    /\ IF cfg["rootFolder"].none
       THEN Commit(World, After("rootFolderSR"))
       ELSE LET c == MapValues(cfg["rootFolder"].d, PathEntry)
                w1 == get(World, "/rootFolder")
                existing == to_dict(remote["/rootFolder"], "path")
                w2 == DeleteUnwanted(w1, "/rootFolder", existing, Keys(c))
            IN Commit(PostNew(w2, "/rootFolder", existing, c), After("rootFolderSR"))
    /\ UNCHANGED run

RootFolderL ==
    /\ pc = "rootFolderL"
    /\ LET w1 == get(World, "/qualityprofile")
           w2 == get(w1, "/metadataprofile")
           qmap == NameIds(remote["/qualityprofile"], NoneD)
           mmap == NameIds(remote["/metadataprofile"], NoneD)
       IN Commit(sync_resources(w2, "/rootFolder", cfg["rootFolder"],
                     [kind |-> "rootFolder", tag_map |-> tag_map, qmap |-> qmap,
                      mmap |-> mmap],
                     FALSE, "name"),
                 After("rootFolderL"))
    /\ UNCHANGED run

Notification == ContractPhase("notification", "/notification", "notification")

Config ==
    /\ pc = "config"
    /\ LET r == recursive_sync(World, cfg["config"], "/config")
       \* the tree is the caller's own object: what pop removes, it loses too
       IN Commit([r.w EXCEPT !.cfg = [@ EXCEPT !["config"] = r.obj],
                             !.given = [@ EXCEPT !["config"] = r.obj]],
                 After("config"))
    /\ UNCHANGED run

\* the drain loop without its try/except
RECURSIVE DrainFrom_NoCatch(_, _)
DrainFrom_NoCatch(w, queue) ==
    IF queue = <<>> \/ w.err THEN w
    ELSE DrainFrom_NoCatch(delete(w, Head(queue)), Tail(queue))

\* the drain loop: every delete is tried, a failure is swallowed
RECURSIVE DrainFrom(_, _)
DrainFrom(w, queue) ==
    IF queue = <<>> \/ w.err THEN w
    ELSE DrainFrom(Caught(delete(w, Head(queue)), TRUE), Tail(queue))

Drain ==
    /\ pc = "drain"
    /\ Commit(DrainFrom(World, deferred_deletes), "done")
    /\ UNCHANGED run

(***************************************************************************)
(* Direct calls of the public methods sync_resources and sync_tags         *)
(***************************************************************************)
Invoke ==
    /\ pc \in {"idle", "returned", "raised"}
    /\ run < MaxRuns
    /\ run' = run + 1
    /\ pc' = "calling"
    /\ start' = Snapshot
    /\ UNCHANGED <<type, cfg, given, tag_map, deferred_deletes, remote, settings,
                   nextId, failing, log, call, outcomes, raisedAt>>

CallSyncResources ==
    /\ pc = "calling"
    /\ Commit(sync_resources(World, call.path, call.cfg, call.defaults,
                             call.allow_error, "name"), "returned")
    /\ UNCHANGED run

CallSyncTags ==
    /\ pc = "calling"
    /\ Commit(sync_tags(World), "returned")
    /\ UNCHANGED run

(***************************************************************************)
(* Initial states: the declared configurations, the servers and the        *)
(* failing requests the behaviours start from                              *)
(***************************************************************************)
SubsetsUpTo(S, n) == {F \in SUBSET S : Cardinality(F) <= n}

\* sequences over S without repetition, of length <= n
RECURSIVE Arrangements(_, _)
Arrangements(S, n) ==
    IF n = 0 THEN {<<>>}
    ELSE LET shorter == Arrangements(S, n - 1)
         IN shorter \cup UNION {{Append(q, x) : x \in S \ Range(q)} : q \in shorter}

\* sequences over S of length <= n
RECURSIVE SeqsUpTo(_, _)
SeqsUpTo(S, n) ==
    IF n = 0 THEN {<<>>}
    ELSE LET shorter == SeqsUpTo(S, n - 1)
         IN shorter \cup {Append(q, x) : q \in shorter, x \in S}

ContractSchema ==
    <<[implementation |-> "QBittorrent", name |-> "", enable |-> FALSE,
       protocol |-> "torrent", presets |-> <<>>,
       fields |-> <<[name |-> "host", value |-> "localhost"],
                    [name |-> "port", value |-> "8080"],
                    [name |-> "category"]>>]>>

\* the indexer definitions a prowlarr server offers (indexed by name)
IndexerSchema ==
    <<[name |-> "Generic", implementation |-> "Cardigann", enable |-> FALSE,
       presets |-> <<>>, fields |-> <<[name |-> "baseUrl"]>>]>>

HostSettings == Dict(<<[k |-> "apiKey", v |-> Prim("key")],
                       [k |-> "port", v |-> Prim("8989")]>>)

SettingsBase ==
    [p \in {"/config/host", "/config/ui", "/config/media/naming"} |-> HostSettings]

CollectionPaths ==
    {"/tag", "/downloadClient", "/appprofile", "/indexer", "/applications",
     "/indexerProxy", "/qualityDefinition", "/customformat", "/qualityprofile",
     "/metadataprofile", "/rootFolder", "/notification", "/config/items"}

SchemaPaths ==
    {"/downloadClient/schema", "/indexer/schema", "/applications/schema",
     "/indexerProxy/schema", "/notification/schema"}

\* a server that holds only what every server holds
RemoteEmpty ==
    [p \in CollectionPaths \cup SchemaPaths |->
        IF p = "/indexer/schema" THEN IndexerSchema
        ELSE IF p \in SchemaPaths THEN ContractSchema
        ELSE IF p = "/qualityprofile" THEN <<[id |-> 1, name |-> "Any"]>>
        ELSE IF p = "/metadataprofile" THEN <<[id |-> 2, name |-> "Standard"]>>
        ELSE <<>>]

\* a server that already holds resources, some of them declared by no configuration
RemotePopulated ==
    [RemoteEmpty EXCEPT
        !["/downloadClient"] =
            <<[id |-> 3, name |-> "old", enable |-> TRUE, implementation |-> "QBittorrent",
               tags |-> <<>>, fields |-> <<[name |-> "host", value |-> "old.local"]>>]>>,
        !["/appprofile"] =
            <<[id |-> 4, name |-> "a", minimumSeeders |-> 5, enableRss |-> TRUE],
              [id |-> 5, name |-> "z", minimumSeeders |-> 1, enableRss |-> TRUE]>>,
        !["/customformat"] = <<[id |-> 6, name |-> "f0"]>>,
        !["/rootFolder"] = <<[id |-> 7, name |-> "old", path |-> "/old"]>>]

ConfigHostOnly == Dict(<<[k |-> "host", v |-> Dict(<<[k |-> "apiKey", v |-> Prim("key")]>>)]>>)

ConfigWithList ==
    Dict(<<[k |-> "host", v |-> Dict(<<[k |-> "apiKey", v |-> Prim("key")]>>)],
           [k |-> "items", v |-> List(<<[name |-> "item"]>>)]>>)

QbitFull == [implementation |-> "QBittorrent", tags |-> <<"hd">>,
             fields |-> <<[k |-> "host", v |-> [value |-> "qbit.local"]]>>]
QbitBare == [host |-> "qbit.local"]

\* the download-client part of a declared configuration (with the tag list)
DownloadClientChoices ==
    {EmptyBody,
     [downloadClient |-> NoneD],
     [downloadClient |-> SomeD(<<[k |-> "qbit", v |-> QbitFull]>>), tag |-> <<"HD">>],
     [downloadClient |-> SomeD(<<[k |-> "qbit", v |-> QbitBare]>>)]}

ConfigChoices == {[config |-> ConfigHostOnly], [config |-> ConfigWithList]}

\* the part of a declared configuration that is specific to a server type
TypeChoices(t) ==
    CASE t = "prowlarr" ->
            {EmptyBody,
             [appProfile |-> NoneD, indexerProxy |-> NoneD],
             [appProfile |-> SomeD(<<[k |-> "a", v |-> [minimumSeeders |-> 2]],
                                     [k |-> "b", v |-> EmptyBody]>>),
              indexerProxy |-> NoneD],
             [appProfile |-> SomeD(<<[k |-> "a", v |-> [minimumSeeders |-> 2]],
                                     [k |-> "b", v |-> EmptyBody]>>),
              indexer |-> SomeD(<<[k |-> "ix", v |-> [indexerName |-> "Generic",
                                                      appProfileId |-> "b"]]>>),
              indexerProxy |-> NoneD]}
      [] t \in {"sonarr", "radarr"} ->
            {EmptyBody,
             [qualityProfile |-> SomeD(<<>>)],
             [qualityProfile |-> NoneD, customFormat |-> NoneD],
             [qualityProfile |-> SomeD(<<>>), rootFolder |-> NoneD],
             [qualityProfile |-> SomeD(<<[k |-> "p", v |-> EmptyBody]>>),
              customFormat |-> SomeD(<<[k |-> "f", v |-> EmptyBody]>>),
              rootFolder |-> SomeD(<<[k |-> "/tv", v |-> EmptyBody]>>)]}
      [] OTHER ->
            {EmptyBody,
             [rootFolder |-> NoneD],
             [rootFolder |-> SomeD(<<[k |-> "music",
                    v |-> [path |-> "/music", defaultTags |-> <<>>,
                           defaultQualityProfileId |-> "Any",
                           defaultMetadataProfileId |-> "Standard"]]>>)]}

Types == {"sonarr", "radarr", "lidarr", "prowlarr"}

Configurations(t) ==
    {Overlay(Overlay(c, d), s) :
        c \in ConfigChoices, d \in DownloadClientChoices, s \in TypeChoices(t)}

\* the requests that may fail against a server of type t
FailCandidates(t) ==
    {<<"GET", "/ping", "">>, <<"POST", "/downloadClient", "qbit">>,
     <<"DELETE", "/downloadClient", "old">>}
    \cup CASE t = "prowlarr" -> {<<"POST", "/appprofile", "b">>,
                                 <<"DELETE", "/appprofile", "z">>}
           [] t \in {"sonarr", "radarr"} -> {<<"POST", "/customformat", "f">>,
                                             <<"DELETE", "/rootFolder", "old">>}
           [] OTHER -> {<<"PUT", "/config/host", "">>}

\* the state after ArrSyncEngine.__init__
Constructed ==
    /\ tag_map = <<>>
    /\ deferred_deletes = <<>>
    /\ log = <<>>
    /\ pc = "idle"
    /\ run = 0
    /\ outcomes = <<>>
    /\ raisedAt = ""
    /\ given = cfg
    /\ nextId = 10
    /\ settings = SettingsBase
    /\ start = Snapshot

NoCall == [op |-> "sync"]

Init ==
    /\ type \in Types
    /\ cfg \in Configurations(type)
    /\ remote \in {RemoteEmpty, RemotePopulated}
    /\ failing \in SubsetsUpTo(FailCandidates(type), MaxFail)
    /\ call = NoCall
    /\ Constructed

Next ==
    \/ Ping
    \/ DefaultKeys
    \/ CompileFormats
    \/ SyncTags
    \/ DownloadClient
    \/ AppProfile
    \/ Indexer
    \/ Applications
    \/ IndexerProxy
    \/ QualityDefinition
    \/ CustomFormat
    \/ QualityProfile
    \/ RootFolderSR
    \/ RootFolderL
    \/ Notification
    \/ Config
    \/ Drain

Spec == Init /\ [][Next]_vars

(***************************************************************************)
(* Direct calls of sync_resources                                          *)
(***************************************************************************)
ResNames == {"a", "b", "c"}

ResAttrs(n) ==
    CASE n = "a" -> [minimumSeeders |-> 2]
      [] n = "b" -> [enableRss |-> FALSE]
      [] OTHER -> EmptyBody

ResDesired ==
    {[i \in DOMAIN q |-> [k |-> q[i], v |-> ResAttrs(q[i])]] :
        q \in Arrangements(ResNames, Cardinality(ResNames))}

ResStored ==
    <<[id |-> 1, name |-> "a", minimumSeeders |-> 5, language |-> "en"],
      [id |-> 2, name |-> "c", minimumSeeders |-> 7],
      [id |-> 3, name |-> "z", minimumSeeders |-> 9]>>

ResExisting ==
    {SelectSeq(ResStored, LAMBDA r : r["name"] \in S) : S \in SUBSET {"a", "c", "z"}}

ResFailCandidates ==
    {<<"GET", "/appprofile", "">>, <<"POST", "/appprofile", "b">>,
     <<"PUT", "/appprofile", "a">>, <<"PUT", "/appprofile", "c">>}

InitRes ==
    /\ type = "prowlarr"
    /\ cfg = [config |-> ConfigHostOnly]
    /\ \E e \in ResExisting : remote = [RemoteEmpty EXCEPT !["/appprofile"] = e]
    /\ failing \in SubsetsUpTo(ResFailCandidates, MaxFail)
    /\ call \in [op : {"sync_resources"}, path : {"/appprofile"},
                 cfg : {NoneD} \cup {SomeD(d) : d \in ResDesired},
                 allow_error : BOOLEAN, defaults : {Identity, [kind |-> "appProfile"]}]
    /\ Constructed

NextRes ==
    \/ Invoke
    \/ CallSyncResources

SpecRes == InitRes /\ [][NextRes]_vars

(***************************************************************************)
(* Direct calls of sync_tags                                               *)
(***************************************************************************)
Labels == {"HD", "hd", "x"}

TagListChoices == {EmptyBody} \cup {[tag |-> q] : q \in SeqsUpTo(Labels, MaxTags)}

TagClientChoices ==
    {EmptyBody,
     [downloadClient |-> NoneD],
     [downloadClient |-> SomeD(<<[k |-> "qbit", v |-> [tags |-> <<"Hd">>]]>>)]}

TagIndexerChoices ==
    {EmptyBody, [indexer |-> SomeD(<<[k |-> "ix", v |-> [tags |-> <<"hd", "x">>]]>>)]}

TagTypeChoices(t) ==
    IF t = "lidarr"
    THEN {[rootFolder |-> NoneD],
          [rootFolder |-> SomeD(<<[k |-> "music", v |-> [defaultTags |-> <<"HD">>]]>>)]}
    ELSE {EmptyBody}

TagConfigurations(t) ==
    {Overlay(Overlay(Overlay([config |-> ConfigHostOnly], a), b), Overlay(c, d)) :
        a \in TagListChoices, b \in TagClientChoices,
        c \in TagIndexerChoices, d \in TagTypeChoices(t)}

TagStored ==
    {<<>>, <<[id |-> 1, label |-> "hd"]>>, <<[id |-> 1, label |-> "HD"]>>,
     <<[id |-> 1, label |-> "x"], [id |-> 2, label |-> "hd"]>>}

TagFailCandidates == {<<"GET", "/tag", "">>, <<"POST", "/tag", "hd">>}

InitTags ==
    /\ type \in {"sonarr", "lidarr"}
    /\ cfg \in TagConfigurations(type)
    /\ \E e \in TagStored : remote = [RemoteEmpty EXCEPT !["/tag"] = e]
    /\ failing \in SubsetsUpTo(TagFailCandidates, MaxFail)
    /\ call = [op |-> "sync_tags"]
    /\ Constructed

NextTags ==
    \/ Invoke
    \/ CallSyncTags

SpecTags == InitTags /\ [][NextTags]_vars

(***************************************************************************)
(* Direct calls of sync_contracts, on an engine whose tag map sync_tags    *)
(* has filled from a server that holds the tag "hd"                        *)
(***************************************************************************)
\* desired entries: new, matching an existing one, with explicit name and
\* enable, with an implementation the schema lacks, without implementation,
\* and with a tag label the tag map lacks
ConEntries ==
    {[k |-> "qbit", v |-> [implementation |-> "QBittorrent", tags |-> <<"HD">>,
                           fields |-> <<[k |-> "host", v |-> [value |-> "qbit.local"]]>>]],
     [k |-> "old", v |-> [protocol |-> "usenet",
                          fields |-> <<[k |-> "port", v |-> [value |-> "9000"]]>>]],
     [k |-> "named", v |-> [implementation |-> "QBittorrent", name |-> "custom",
                            enable |-> FALSE]],
     [k |-> "bad", v |-> [implementation |-> "Nope"]],
     [k |-> "bare", v |-> [host |-> "qbit.local"]],
     [k |-> "tagged", v |-> [implementation |-> "QBittorrent", tags |-> <<"hd", "x">>]]}

\* the desired collections: up to n entries, in every order
ConDesired(n) ==
    {[i \in DOMAIN q |-> q[i]] : q \in Arrangements(ConEntries, n)}

ConStored ==
    <<[id |-> 3, name |-> "old", enable |-> FALSE, implementation |-> "QBittorrent",
       priority |-> 5, tags |-> <<1>>,
       fields |-> <<[name |-> "host", value |-> "old.local"],
                    [name |-> "port", value |-> "1"]>>],
      [id |-> 4, name |-> "orphan", enable |-> TRUE, implementation |-> "QBittorrent",
       tags |-> <<>>, fields |-> <<>>]>>

ConExisting == {<<>>, <<ConStored[1]>>, ConStored}

ConFailCandidates ==
    {<<"POST", "/downloadClient", "qbit">>, <<"PUT", "/downloadClient", "old">>}

InitCon ==
    /\ type = "sonarr"
    /\ cfg = [config |-> ConfigHostOnly]
    /\ given = cfg
    /\ \E e \in ConExisting :
          remote = [RemoteEmpty EXCEPT !["/downloadClient"] = e,
                                       !["/tag"] = <<[id |-> 1, label |-> "hd"]>>]
    /\ tag_map = LabelIds(remote["/tag"])
    /\ failing \in SubsetsUpTo(ConFailCandidates, MaxFail)
    /\ call \in [op : {"sync_contracts"}, path : {"/downloadClient"},
                 cfg : {NoneD} \cup {SomeD(d) : d \in ConDesired(MaxEntries)}]
    /\ deferred_deletes = <<>>
    /\ log = <<>>
    /\ pc = "idle"
    /\ run = 0
    /\ outcomes = <<>>
    /\ raisedAt = ""
    /\ nextId = 10
    /\ settings = SettingsBase
    /\ start = Snapshot

\* self.sync_contracts(path, cfg) with the default arguments
CallSyncContracts ==
    /\ pc = "calling"
    /\ Commit(sync_contracts(World, call.path, call.cfg, Identity,
                             "implementation", "implementation"), "returned")
    /\ UNCHANGED run

NextCon ==
    \/ Invoke
    \/ CallSyncContracts

SpecCon == InitCon /\ [][NextCon]_vars

(***************************************************************************)
(* Direct calls of recursive_sync on the config tree                       *)
(***************************************************************************)
Leaf(k, x) == [k |-> k, v |-> Prim(x)]
Node(k, kv) == [k |-> k, v |-> Dict(kv)]

\* the settings trees a configuration can hold under "config"
Trees ==
    {Dict(<<>>),
     Dict(<<Node("host", <<Leaf("apiKey", "new")>>)>>),
     Dict(<<Node("host", <<Leaf("apiKey", "key")>>),
            [k |-> "items", v |-> List(<<[name |-> "item"], [name |-> "other"]>>)]>>),
     Dict(<<Node("ui", <<Node("__req", <<>>), Node("theme", <<Leaf("dark", "yes")>>)>>)>>),
     Dict(<<Node("ui", <<Leaf("__req", "true"), Leaf("port", "80")>>),
            Node("host", <<Leaf("port", "81")>>)>>),
     Dict(<<Node("host", <<Leaf("port", "81"),
                           Node("sub", <<Leaf("__req", "true"), Leaf("x", "1")>>)>>)>>),
     Dict(<<Node("host", <<Leaf("apiKey", "new"),
                           Node("nested", <<Node("deep", <<Leaf("x", "1")>>)>>),
                           [k |-> "hooks", v |-> List(<<[name |-> "hook"]>>)]>>)>>),
     Dict(<<Node("media", <<Node("naming", <<Leaf("port", "82")>>)>>),
            Node("host", <<Node("__req", <<>>)>>)>>)}

TreeFailCandidates ==
    {<<"GET", "/config/host", "">>, <<"PUT", "/config/host", "">>,
     <<"GET", "/config/ui", "">>, <<"POST", "/config/items", "other">>}

InitTree ==
    /\ type = "sonarr"
    /\ \E t \in Trees : cfg = [config |-> t]
    /\ remote = RemoteEmpty
    /\ failing \in SubsetsUpTo(TreeFailCandidates, MaxFail)
    /\ call = [op |-> "recursive_sync", resource |-> "/config"]
    /\ Constructed

\* self.recursive_sync(self.cfg["config"], resource="/config")
CallRecursiveSync ==
    /\ pc = "calling"
    /\ LET r == recursive_sync(World, cfg["config"], call.resource)
       IN Commit([r.w EXCEPT !.cfg = [@ EXCEPT !["config"] = r.obj],
                             !.given = [@ EXCEPT !["config"] = r.obj]],
                 "returned")
    /\ UNCHANGED run

NextTree ==
    \/ Invoke
    \/ CallRecursiveSync

SpecTree == InitTree /\ [][NextTree]_vars

(***************************************************************************)
(* The two field conversions of sync_contracts on their own: a field       *)
(* mapping is put on the wire and read back.                               *)
(***************************************************************************)
FieldNames == {"host", "port", "category"}
FieldValues == {NoValue, [value |-> "a"], [value |-> "b"]}

\* the field mappings of at most n fields, in every order
FieldMappings(n) ==
    UNION {{[i \in DOMAIN q |-> [k |-> q[i], v |-> vs[i]]] :
                vs \in [DOMAIN q -> FieldValues]} :
           q \in Arrangements(FieldNames, n)}

InitFields ==
    /\ type = "sonarr"
    /\ cfg = [config |-> ConfigHostOnly]
    /\ remote = RemoteEmpty
    /\ failing = {}
    /\ call \in [op : {"fields"}, mapping : FieldMappings(MaxFields),
                 wire : {<<>>}, back : {<<>>}]
    /\ Constructed

\* mapping -> wire (the last map_values of sync_contracts)
CallFieldWire ==
    /\ pc = "calling"
    /\ call' = [call EXCEPT !.wire = FieldWire(call.mapping)]
    /\ pc' = "wired"
    /\ UNCHANGED <<type, cfg, given, tag_map, deferred_deletes, remote, settings,
                   nextId, failing, log, run, start, outcomes, raisedAt>>

\* wire -> mapping (what sync_contracts does with a fetched field list)
CallFieldMap ==
    /\ pc = "wired"
    /\ call' = [call EXCEPT !.back = FieldMap(call.wire)]
    /\ pc' = "returned"
    /\ UNCHANGED <<type, cfg, given, tag_map, deferred_deletes, remote, settings,
                   nextId, failing, log, run, start, outcomes, raisedAt>>

NextFields ==
    \/ Invoke
    \/ CallFieldWire
    \/ CallFieldMap

SpecFields == InitFields /\ [][NextFields]_vars

(***************************************************************************)
(* Properties                                                              *)
(***************************************************************************)
\* the requests of the current run / direct call
Current == SubSeq(log, start.at + 1, Len(log))

Writes(q) == SelectSeq(q, LAMBDA e : e.m \in {"POST", "PUT"})
Deletes(q) == SelectSeq(q, LAMBDA e : e.m = "DELETE")

\* what the current call appended to the deferred-deletion queue
Queued == SubSeq(deferred_deletes, Len(start.dd) + 1, Len(deferred_deletes))

Occurrences(q, x) == Cardinality({i \in DOMAIN q : q[i] = x})

\* a direct call of sync_resources: D, E indexed by name, and the call's path
ResD == call.cfg.d
ResE == to_dict(start.remote[call.path], "name")
ResOrphans == Keys(ResE) \ Keys(ResD)

\* D[k] as the call sends it: the caller's defaults applied, then the key
\* added as "name" unless the entry sets one
ResSent(i) == Overlay([name |-> ResD[i].k], Defaults(call.defaults, ResD[i].k, ResD[i].v))

ResFinished == pc \in {"returned", "raised"} /\ call.op = "sync_resources" /\ run > 0

ResQueuedOnce ==
    /\ Len(Queued) = Cardinality(ResOrphans)
    /\ \A k \in ResOrphans :
          Occurrences(Queued, IdPath(call.path, Lookup(ResE, k)["id"])) = 1
    /\ Deletes(Current) = <<>>

\* C1 as stated: with D non-absent and every request succeeding, key k of D
\* gets exactly one write, a PUT to path/{E[k].id} with body E[k] overlaid by
\* D[k] when k is in E and otherwise a POST to path with body D[k]; no other
\* write is issued; every key of E - D is in the deferred-deletion queue
\* exactly once and no DELETE was issued.
C1_Original ==
    (ResFinished /\ ~call.cfg.none /\ failing = {}) =>
        /\ pc = "returned"
        /\ Len(Writes(Current)) = Len(ResD)
        /\ \A i \in DOMAIN ResD :
              LET e == Writes(Current)[i]
                  k == ResD[i].k
              IN IF k \in Keys(ResE)
                 THEN /\ e.m = "PUT"
                      /\ e.path = IdPath(call.path, Lookup(ResE, k)["id"])
                      /\ e.body = Overlay(Lookup(ResE, k), ResD[i].v)
                 ELSE /\ e.m = "POST"
                      /\ e.path = call.path
                      /\ e.body = ResD[i].v
        /\ \A k \in ResOrphans :
              Occurrences(deferred_deletes, IdPath(call.path, Lookup(ResE, k)["id"])) = 1
        /\ Deletes(Current) = <<>>

\* C1 amended: the same, where the attributes written for k are D[k] after
\* the caller's defaults function with name = k added unless D[k] sets a name
\* (the PUT body is E[k] overlaid by these, the POST body is these), and every
\* key of E - D is appended to the deferred-deletion queue exactly once by the
\* call.
C1_Reconciled ==
    (ResFinished /\ ~call.cfg.none /\ failing = {}) =>
        /\ pc = "returned"
        /\ Len(Writes(Current)) = Len(ResD)
        /\ \A i \in DOMAIN ResD :
              LET e == Writes(Current)[i]
                  k == ResD[i].k
              IN IF k \in Keys(ResE)
                 THEN /\ e.m = "PUT"
                      /\ e.path = IdPath(call.path, Lookup(ResE, k)["id"])
                      /\ e.body = Overlay(Lookup(ResE, k), ResSent(i))
                 ELSE /\ e.m = "POST"
                      /\ e.path = call.path
                      /\ e.body = ResSent(i)
        /\ ResQueuedOnce

\* a call that updated one resource, created another and queued an orphan,
\* with a defaults function that adds attributes
C1_Witness ==
    /\ ResFinished /\ ~call.cfg.none /\ failing = {}
    /\ pc = "returned"
    /\ call.defaults.kind = "appProfile"
    /\ Keys(ResD) \cap Keys(ResE) # {}
    /\ Keys(ResD) \ Keys(ResE) # {}
    /\ ResOrphans # {}

\* whether the write of the i-th desired entry is answered with an error
ResWriteFails(i) ==
    IF ResD[i].k \in Keys(ResE)
    THEN <<"PUT", call.path, ResD[i].k>> \in failing
    ELSE <<"POST", call.path, ResD[i].k>> \in failing

ResFetched == <<"GET", call.path, "">> \notin failing

\* C6: with allow_error, whichever writes fail, a write is issued for every
\* desired entry, in iteration order, and the call returns without raising.
C6_PartialFailure ==
    (ResFinished /\ ~call.cfg.none /\ call.allow_error /\ ResFetched) =>
        /\ pc = "returned"
        /\ Len(Writes(Current)) = Len(ResD)
        /\ \A i \in DOMAIN ResD : Writes(Current)[i].body["name"] = ResD[i].k

\* three desired entries, the write of the second one failed
C6_Witness ==
    /\ ResFinished /\ ~call.cfg.none /\ call.allow_error /\ ResFetched
    /\ Len(ResD) = 3
    /\ ResWriteFails(2)
    /\ pc = "returned"

ResFirstFailure ==
    CHOOSE i \in DOMAIN ResD :
        ResWriteFails(i) /\ \A j \in DOMAIN ResD : ResWriteFails(j) => i <= j

\* C7: without allow_error the first failing write makes the call raise; no
\* request is issued for a later entry, and what the call queued for deletion
\* is still in the queue, with no DELETE issued.
C7_FirstFailureAborts ==
    (/\ ResFinished /\ ~call.cfg.none /\ ~call.allow_error /\ ResFetched
     /\ \E i \in DOMAIN ResD : ResWriteFails(i)) =>
        /\ pc = "raised"
        /\ Len(Writes(Current)) = ResFirstFailure
        /\ \A i \in 1..ResFirstFailure : Writes(Current)[i].body["name"] = ResD[i].k
        /\ Current[Len(Current)] = Writes(Current)[ResFirstFailure]
        /\ ResQueuedOnce
        /\ SubSeq(deferred_deletes, 1, Len(start.dd)) = start.dd

\* the failing write had entries after it and the call had queued a deletion
C7_Witness ==
    /\ ResFinished /\ ~call.cfg.none /\ ~call.allow_error /\ ResFetched
    /\ \E i \in DOMAIN ResD : ResWriteFails(i)
    /\ ResFirstFailure < Len(ResD)
    /\ ResOrphans # {}
    /\ pc = "raised"

\* the labels a configuration declares where sync_tags collects them
DeclaredLabels(c) ==
    Range(GetOr(c, "tag", <<>>))
    \cup UNION {Range(NestedTags(c, TagKeys[i])) : i \in DOMAIN TagKeys}
    \cup (IF type = "lidarr" /\ ~LidarrTagsRaise(c) THEN Range(LidarrTags(c)) ELSE {})

\* two labels that differ at most in letter case
SameButCase(a, b) == a = b \/ {a, b} \subseteq {"HD", "Hd", "hd"}

TagsFinished == pc \in {"returned", "raised"} /\ call.op = "sync_tags" /\ run > 0

TagPosts == SelectSeq(Current, LAMBDA e : e.m = "POST" /\ e.path = "/tag")

\* C9: one sync_tags call issues at most one POST /tag per lower-cased label
\* and none for a label the server already holds, and a second call with the
\* same input issues no POST /tag.
C9_NoDuplicateTags ==
    TagsFinished =>
        /\ \A i, j \in DOMAIN TagPosts :
              i # j => TagPosts[i].body["label"] # TagPosts[j].body["label"]
        /\ \A i \in DOMAIN TagPosts :
              \A j \in DOMAIN start.remote["/tag"] :
                  start.remote["/tag"][j]["label"] # TagPosts[i].body["label"]
        /\ (run = 2 /\ outcomes[1] = "done") => TagPosts = <<>>

\* a sync() run that has started (Current is then the run's requests)
InRun == call.op = "sync" /\ run > 0
RunEnded == InRun /\ pc \in {"done", "raised"}

\* C2: in every sync() run the queue is drained, also when a phase raised:
\* every deletion the run queued has been issued as a DELETE when sync() ends.
C2_DrainAlways ==
    RunEnded =>
        \A i \in DOMAIN Queued :
            \E j \in DOMAIN Current :
                Current[j].m = "DELETE" /\ Current[j].path = Queued[i]

\* C3: in a sync() run no DELETE is issued before the last POST or PUT.
C3_DeletesDeferred ==
    InRun =>
        \A i, j \in DOMAIN Current :
            (i < j /\ Current[i].m = "DELETE") => Current[j].m \notin {"POST", "PUT"}

\* C4: a second sync() with the same configuration, after a first one that
\* ran to its end with every request succeeding, issues no POST and no DELETE.
C4_Idempotent ==
    (InRun /\ run = 2 /\ outcomes[1] = "done" /\ failing = {}) =>
        \A i \in DOMAIN Current : Current[i].m \notin {"POST", "DELETE"}

DrainRequests == SelectSeq(Current, LAMBDA e : e.ph = "drain")

\* C5: the drain issues exactly one DELETE per queued entry, in queue order,
\* whichever of them fail, and a run never raises out of the drain.
C5_DrainIsolation ==
    InRun =>
        /\ pc = "done" =>
              /\ Len(DrainRequests) = Len(deferred_deletes)
              /\ \A i \in DOMAIN DrainRequests :
                    /\ DrainRequests[i].m = "DELETE"
                    /\ DrainRequests[i].path = deferred_deletes[i]
        /\ pc = "raised" => DrainRequests = <<>>

\* two queued deletions, the DELETE of the first one fails
C5_Witness ==
    /\ InRun /\ pc = "done"
    /\ Len(deferred_deletes) >= 2
    /\ deferred_deletes[1] = "/downloadClient/3"
    /\ <<"DELETE", "/downloadClient", "old">> \in failing
    /\ Len(DrainRequests) >= 2

\* the run's configuration declares exactly one download client and the
\* server held none when the run started
OneClient ==
    /\ InRun
    /\ "downloadClient" \in DOMAIN start.cfg
    /\ ~start.cfg["downloadClient"].none
    /\ Len(start.cfg["downloadClient"].d) = 1
    /\ start.remote["/downloadClient"] = <<>>

ClientKey == start.cfg["downloadClient"].d[1].k
ClientAttrs == start.cfg["downloadClient"].d[1].v
ClientPosts == SelectSeq(Current, LAMBDA e : e.m = "POST" /\ e.path = "/downloadClient")

ClientReached == \E i \in DOMAIN Current : Current[i].ph = "downloadClient"

\* C10 as stated (for a run that gets to the download-client phase, every
\* request succeeding): sync() issues exactly one create to /downloadClient,
\* whose body is exactly A with name = k added.
C10_Original ==
    (OneClient /\ RunEnded /\ ClientReached /\ failing = {}) =>
        /\ Len(ClientPosts) = 1
        /\ ClientPosts[1].body = Overlay(ClientAttrs, [name |-> ClientKey])

ClientSchemas == start.remote["/downloadClient/schema"]

ClientValid ==
    /\ "implementation" \in DOMAIN ClientAttrs
    /\ \E i \in DOMAIN ClientSchemas :
          ClientSchemas[i]["implementation"] = ClientAttrs["implementation"]

\* the body the amended C10 expects
ClientExpected ==
    LET S == ClientSchemas[CHOOSE i \in DOMAIN ClientSchemas :
                 ClientSchemas[i]["implementation"] = ClientAttrs["implementation"]]
        base == [f \in DOMAIN S \ {"presets"} |->
                    IF f = "fields" THEN FieldMap(S["fields"]) ELSE S[f]]
        top == Overlay([enable |-> TRUE, name |-> ClientKey], ClientAttrs)
        fields == OverlayPairs(base["fields"], GetOr(top, "fields", <<>>))
        labels == GetOr(top, "tags", <<>>)
    IN Overlay(Overlay(base, top),
               [tags |-> [j \in DOMAIN labels |-> tag_map[Lower(labels[j])]],
                fields |-> FieldWire(fields)])

\* C10 amended: a create to /downloadClient is issued only when the run
\* reaches the download-client phase and A names an implementation the schema
\* lists (otherwise that phase raises and nothing is created); then exactly one
\* create is issued, and its body is the schema entry of that implementation
\* without presets, overlaid by A with enable = true and name = k added unless
\* A sets them, its tag labels replaced by identifiers and its fields sent as
\* the list of {name, value?} records.
C10_Create ==
    OneClient =>
        IF ClientReached /\ ClientValid
        THEN /\ Len(ClientPosts) = 1
             /\ ClientPosts[1].body = ClientExpected
        ELSE /\ ClientPosts = <<>>
             /\ ClientReached => pc = "raised"

\* a run that created the declared client and ran to its end
C10_Witness ==
    /\ OneClient /\ ClientReached /\ ClientValid
    /\ pc = "done"
    /\ Len(ClientPosts) = 1
    /\ ClientPosts[1].body["name"] = "qbit"

\* the keys of a configuration that name a resource type, and its path
ManagedPath ==
    [downloadClient |-> "/downloadClient", appProfile |-> "/appprofile",
     applications |-> "/applications", indexer |-> "/indexer",
     indexerProxy |-> "/indexerProxy", customFormat |-> "/customformat",
     qualityProfile |-> "/qualityprofile", rootFolder |-> "/rootFolder",
     notification |-> "/notification"]

\* the resource types the caller declared absent
AbsentKeys == {k \in DOMAIN start.given \cap DOMAIN ManagedPath : start.given[k].none}

\* the phases of sync() that use cfg[k] (the tag phase skips a None collection
\* of its four keys, but on lidarr it reads the root folders)
Readers(k) ==
    CASE k = "rootFolder" ->
            {"rootFolderSR", "rootFolderL"} \cup (IF type = "lidarr" THEN {"tags"} ELSE {})
      [] k \in {"customFormat", "qualityProfile"} -> {"compile", k}
      [] OTHER -> {k}

\* a request on the collection res or on one of its resources
OnResource(e, res) == e.path = res \/ \E id \in 0..nextId : e.path = IdPath(res, id)

\* C11: a sync() run whose requests all succeed does not raise in a phase
\* that uses a resource type declared absent, and issues no POST, PUT or
\* DELETE on that type's path.
C11_AbsentUnmanaged ==
    (InRun /\ failing = {}) =>
        \A k \in AbsentKeys :
            /\ pc = "raised" => raisedAt \notin Readers(k)
            /\ \A i \in DOMAIN Current :
                  OnResource(Current[i], ManagedPath[k])
                      => Current[i].m \notin {"POST", "PUT", "DELETE"}

\* the phases of sync() that are one reconciler call and nothing else, and
\* the key whose collection they reconcile
ReconcilerPhases ==
    {"downloadClient", "applications", "indexerProxy", "notification",
     "appProfile", "customFormat"}

\* C12: a reconciler call (sync_resources, sync_contracts) whose desired
\* collection is None is a no-op: the step issues no request, queues nothing,
\* leaves the tag map and the server alone and does not raise.
C12_AbsentNoOp ==
    [][\A p \in ReconcilerPhases :
          (pc = p /\ p \in DOMAIN cfg /\ cfg[p].none) =>
              /\ log' = log
              /\ deferred_deletes' = deferred_deletes
              /\ tag_map' = tag_map
              /\ remote' = remote
              /\ pc' = After(p)]_vars

\* a prowlarr run in which sync_contracts (download clients) and
\* sync_resources (app profiles) were both called with None
C12_Witness ==
    /\ InRun /\ type = "prowlarr"
    /\ pc = "indexer"
    /\ cfg["downloadClient"].none /\ cfg["appProfile"].none
    /\ remote["/appprofile"] # <<>> /\ remote["/downloadClient"] # <<>>

\* C13: when a sync() run has returned or raised, the configuration object
\* the caller handed to the engine equals its value before the run.
C13_CallerUntouched == RunEnded => given = start.given

FieldsDone == call.op = "fields" /\ pc = "returned"

\* C14: a field mapping put on the wire and read back is the original
\* mapping, in the original order, null values included; on the wire every
\* field is one record in the mapping's order, {name, value} for a value and
\* {name} alone for null.
C14_FieldRoundTrip ==
    FieldsDone =>
        /\ call.back = call.mapping
        /\ Len(call.wire) = Len(call.mapping)
        /\ \A i \in DOMAIN call.mapping :
              /\ call.wire[i]["name"] = call.mapping[i].k
              /\ IF call.mapping[i].v = NoValue
                 THEN DOMAIN call.wire[i] = {"name"}
                 ELSE /\ DOMAIN call.wire[i] = {"name", "value"}
                      /\ call.wire[i]["value"] = call.mapping[i].v["value"]

\* a mapping of two fields, not in alphabetical order, the first one null
C14_Witness ==
    /\ FieldsDone
    /\ Len(call.mapping) = 2
    /\ call.mapping[1] = [k |-> "port", v |-> NoValue]
    /\ call.mapping[2].k = "host" /\ call.mapping[2].v # NoValue

PingFails == <<"GET", "/ping", "">> \in failing

\* C15: GET /ping is the first request of every sync() run; when it is
\* answered with an error status the run raises with no other request
\* issued and nothing queued for deletion.
C15_PingFirst ==
    InRun =>
        /\ Current[1].m = "GET" /\ Current[1].path = "/ping"
        /\ PingFails =>
              /\ pc = "raised"
              /\ Len(Current) = 1
              /\ deferred_deletes = start.dd
              /\ remote = start.remote /\ settings = start.settings

\* a run against a populated server whose ping failed
C15_Witness ==
    /\ InRun /\ PingFails
    /\ pc = "raised" /\ raisedAt = "ping"
    /\ remote["/downloadClient"] # <<>>
    /\ "downloadClient" \in DOMAIN cfg
    /\ ~cfg["downloadClient"].none

ContractPaths ==
    {"/downloadClient", "/indexer", "/applications", "/indexerProxy", "/notification"}

WriteOn(e, res) == e.m \in {"POST", "PUT"} /\ OnResource(e, res)
Fetch(e, res) == e.m = "GET" /\ e.path = res

\* the request j of the run has a request before it that satisfies fetched
FetchedBefore(j, res) == \E i \in 1..(j - 1) : Fetch(Current[i], res)

\* C16: in every sync() run the requests respect the dependencies between
\* the phases: the tag phase is over before a contract resource is written;
\* on prowlarr the app-profile writes and the fetch of the profile ids come
\* before every indexer write; on sonarr/radarr the custom-format writes and
\* fetch come before every quality-profile write; on lidarr the quality and
\* metadata profile fetches come before every root-folder write; the config
\* tree patch follows every resource phase and the drain is last.
C16_PhaseOrder ==
    InRun =>
        /\ \A i, j \in DOMAIN Current :
              /\ (/\ Current[i].ph = "tags"
                  /\ \E res \in ContractPaths : WriteOn(Current[j], res)) => i < j
              /\ (/\ type = "prowlarr"
                  /\ WriteOn(Current[i], "/appprofile") \/ Fetch(Current[i], "/appprofile")
                  /\ WriteOn(Current[j], "/indexer")) => i < j
              /\ (/\ type \in {"sonarr", "radarr"}
                  /\ WriteOn(Current[i], "/customformat") \/ Fetch(Current[i], "/customformat")
                  /\ WriteOn(Current[j], "/qualityprofile")) => i < j
              /\ (/\ type = "lidarr"
                  /\ Fetch(Current[i], "/qualityprofile") \/ Fetch(Current[i], "/metadataprofile")
                  /\ WriteOn(Current[j], "/rootFolder")) => i < j
              /\ (Current[j].ph = "config" /\ Current[i].ph \notin {"config", "drain"})
                     => i < j
              /\ (Current[j].ph = "drain" /\ Current[i].ph # "drain") => i < j
        /\ \A j \in DOMAIN Current :
              /\ (\E res \in ContractPaths : WriteOn(Current[j], res))
                     => FetchedBefore(j, "/tag")
              /\ (type = "prowlarr" /\ WriteOn(Current[j], "/indexer"))
                     => FetchedBefore(j, "/appprofile")
              /\ (type \in {"sonarr", "radarr"} /\ WriteOn(Current[j], "/qualityprofile"))
                     => FetchedBefore(j, "/customformat")
              /\ (type = "lidarr" /\ WriteOn(Current[j], "/rootFolder"))
                     => /\ FetchedBefore(j, "/qualityprofile")
                        /\ FetchedBefore(j, "/metadataprofile")

\* a prowlarr run to its end that wrote app profiles, then an indexer, then
\* patched the config tree and drained a queued deletion
C16_Witness ==
    /\ InRun /\ type = "prowlarr" /\ pc = "done"
    /\ \E i, j, m, n \in DOMAIN Current :
          /\ i < j /\ j < m /\ m < n
          /\ WriteOn(Current[i], "/appprofile")
          /\ WriteOn(Current[j], "/indexer")
          /\ Current[m].ph = "config"
          /\ Current[n].ph = "drain"

TreeDone == call.op = "recursive_sync" /\ run > 0 /\ pc \in {"returned", "raised"}

\* the requests C17 prescribes for the node obj at resource, st being the
\* settings the server holds: for a list one POST per element; for a mapping
\* of containers without marker the requests of its children, in order; for
\* any other mapping a GET and a PUT of the node merged over what was fetched
RECURSIVE TreeRequests(_, _, _)
TreeRequests(obj, resource, st) ==
    IF obj.t = "list"
    THEN [i \in DOMAIN obj.items |->
             [m |-> "POST", path |-> resource, body |-> obj.items[i]]]
    ELSE IF \/ \E i \in DOMAIN obj.kv : obj.kv[i].v.t \notin {"dict", "list"}
            \/ \E i \in DOMAIN obj.kv : obj.kv[i].k = "__req"
    THEN <<[m |-> "GET", path |-> resource, body |-> EmptyBody],
           [m |-> "PUT", path |-> resource,
            body |-> IF resource \in DOMAIN st
                     THEN TreeMerge(Dict(SelectSeq(obj.kv, LAMBDA e : e.k # "__req")),
                                    st[resource])
                     ELSE EmptyBody]>>
    ELSE Flatten([i \in DOMAIN obj.kv |->
                     TreeRequests(obj.kv[i].v, resource \o "/" \o obj.kv[i].k, st)])

TreePrescribed == TreeRequests(start.cfg["config"], call.resource, start.settings)

\* the server holds every path the prescribed requests address and answers
\* none of them with an error
TreeServed ==
    /\ failing = {}
    /\ \A i \in DOMAIN TreePrescribed :
          IF TreePrescribed[i].m = "POST"
          THEN TreePrescribed[i].path \in DOMAIN start.remote
          ELSE TreePrescribed[i].path \in DOMAIN start.settings

\* C17: when every request succeeds, the requests of a recursive_sync call
\* are exactly those its request shape prescribes for the tree it was given
\* (the PUT body is the node without its own marker, merged over the fetched
\* value), and the call returns.
C17_TreeShape ==
    (TreeDone /\ TreeServed) =>
        /\ pc = "returned"
        /\ [i \in DOMAIN Current |->
               [m |-> Current[i].m, path |-> Current[i].path, body |-> Current[i].body]]
           = TreePrescribed

\* a call that posted both elements of a list and updated one resource
C17_Witness ==
    /\ TreeDone /\ TreeServed /\ pc = "returned"
    /\ Len(Current) = 4
    /\ Current[1].m = "GET" /\ Current[2].m = "PUT" /\ Current[2].path = "/config/host"
    /\ Current[3].m = "POST" /\ Current[4].m = "POST" /\ Current[4].path = "/config/items"

\* whether the marker key occurs anywhere in a settings node
RECURSIVE HasMarker(_)
HasMarker(node) ==
    /\ node.t = "dict"
    /\ \E i \in DOMAIN node.kv : node.kv[i].k = "__req" \/ HasMarker(node.kv[i].v)

\* C18: no PUT or POST body sent by recursive_sync contains the marker key.
C18_MarkerStripped ==
    call.op = "recursive_sync" =>
        \A i \in DOMAIN log :
            /\ log[i].m = "PUT" => ~HasMarker(log[i].body)
            /\ log[i].m = "POST" => "__req" \notin DOMAIN log[i].body

(***************************************************************************)
(* sync_contracts called on its own: what is sent, and when it raises      *)
(***************************************************************************)
ConDone == call.op = "sync_contracts" /\ run > 0 /\ pc \in {"returned", "raised"}

ConWanted == call.cfg.d

\* the entry the server held under that name when the call started
ConHeld(k) ==
    LET list == start.remote[call.path]
        hits == {i \in DOMAIN list : list[i]["name"] = k}
    IN IF hits = {} THEN EmptyBody ELSE list[CHOOSE i \in hits : TRUE]

\* the discriminator of the i-th desired entry: its own, else the held one's
ConHasDisc(i) ==
    \/ "implementation" \in DOMAIN ConWanted[i].v
    \/ "implementation" \in DOMAIN ConHeld(ConWanted[i].k)

ConDisc(i) ==
    IF "implementation" \in DOMAIN ConWanted[i].v
    THEN ConWanted[i].v["implementation"]
    ELSE ConHeld(ConWanted[i].k)["implementation"]

ConOffered == start.remote[call.path \o "/schema"]

ConSchemaOk(i) ==
    /\ ConHasDisc(i)
    /\ \E j \in DOMAIN ConOffered : ConOffered[j]["implementation"] = ConDisc(i)

ConTagsOk(i) ==
    "tags" \in DOMAIN ConWanted[i].v =>
        \A j \in DOMAIN ConWanted[i].v["tags"] :
            Lower(ConWanted[i].v["tags"][j]) \in DOMAIN start.tag_map

ConResolvable == \A i \in DOMAIN ConWanted : ConSchemaOk(i) /\ ConTagsOk(i)

\* the schema entry the i-th desired entry selects
ConSelected(i) ==
    ConOffered[CHOOSE j \in DOMAIN ConOffered :
                   ConOffered[j]["implementation"] = ConDisc(i)]

\* the first of the sources, in order of precedence, that sets attribute f
FirstSetting(srcs, f) ==
    srcs[CHOOSE n \in DOMAIN srcs :
            /\ f \in DOMAIN srcs[n]
            /\ \A m \in 1..(n - 1) : f \notin DOMAIN srcs[m]][f]

WireNames(list) == {list[j]["name"] : j \in DOMAIN list}

WireOf(list, n) == list[CHOOSE j \in DOMAIN list : list[j]["name"] = n]

\* the field record prescribed for field n of the i-th desired entry
ConField(i, n) ==
    LET A == GetOr(ConWanted[i].v, "fields", <<>>)
        X == GetOr(ConHeld(ConWanted[i].k), "fields", <<>>)
        S == ConSelected(i)["fields"]
    IN IF n \in Keys(A)
       THEN IF "value" \in DOMAIN Lookup(A, n)
            THEN [name |-> n, value |-> Lookup(A, n)["value"]]
            ELSE [name |-> n]
       ELSE IF n \in WireNames(X) THEN WireOf(X, n)
       ELSE WireOf(S, n)

ConFieldNames(i) ==
    Keys(GetOr(ConWanted[i].v, "fields", <<>>))
        \cup WireNames(GetOr(ConHeld(ConWanted[i].k), "fields", <<>>))
        \cup WireNames(ConSelected(i)["fields"])

\* the attributes prescribed for the i-th desired entry, fields apart
ConAttrs(i) ==
    LET A == ConWanted[i].v
        X == ConHeld(ConWanted[i].k)
        S == ConSelected(i)
        srcs == <<A, X, [name |-> ConWanted[i].k, enable |-> TRUE, tags |-> <<>>],
                  del_keys(S, {"name", "enable"})>>
        all == (DOMAIN A \cup DOMAIN X \cup DOMAIN S \cup {"name", "enable", "tags"})
                   \ {"presets", "fields"}
        labels == GetOr(A, "tags", <<>>)
    IN [f \in all |->
          IF f = "tags" /\ "tags" \in DOMAIN A
          THEN [j \in DOMAIN labels |-> start.tag_map[Lower(labels[j])]]
          ELSE FirstSetting(srcs, f)]

ConWrites == Writes(Current)

ConSentOk(i) ==
    LET b == ConWrites[i].body
    IN /\ del_keys(b, {"fields"}) = ConAttrs(i)
       /\ "fields" \in DOMAIN b
       /\ WireNames(b["fields"]) = ConFieldNames(i)
       /\ Len(b["fields"]) = Cardinality(ConFieldNames(i))
       /\ \A j \in DOMAIN b["fields"] : b["fields"][j] = ConField(i, b["fields"][j]["name"])
       /\ WireNames(ConSelected(i)["fields"]) \subseteq WireNames(b["fields"])
       /\ "name" \in DOMAIN ConWanted[i].v => b["name"] = ConWanted[i].v["name"]
       /\ "enable" \in DOMAIN ConWanted[i].v => b["enable"] = ConWanted[i].v["enable"]

\* C19: when sync_contracts is called with a desired collection whose entries
\* all resolve, the i-th body it sends is the one of the i-th desired entry
\* (in the order of the collection; all of them when no request fails), and
\* in that body every attribute and every field has the desired value if the
\* desired entry sets it, else the value of the existing entry of that name
\* if there is one, else the selected schema entry's (presets apart); every
\* schema field is in the sent field list; name is the key and enable is true
\* unless the desired or the existing entry sets them; tag labels are sent
\* as identifiers.
C19_MergePrecedence ==
    (ConDone /\ ~call.cfg.none /\ ConResolvable) =>
        /\ Len(ConWrites) <= Len(ConWanted)
        /\ (failing = {} => Len(ConWrites) = Len(ConWanted) /\ pc = "returned")
        /\ \A i \in DOMAIN ConWrites :
              /\ ConWrites[i].m =
                    IF ConHeld(ConWanted[i].k) = EmptyBody THEN "POST" ELSE "PUT"
              /\ ConSentOk(i)

\* a call that updated the existing entry "old" (own fields over held over
\* schema) and created one with an explicit name and enable
C19_Witness ==
    /\ ConDone /\ ~call.cfg.none /\ ConResolvable /\ pc = "returned"
    /\ Len(ConWanted) = 2 /\ Len(ConWrites) = 2
    /\ \E i \in DOMAIN ConWanted :
          /\ ConWanted[i].k = "old"
          /\ ConHeld("old") # EmptyBody
          /\ ConWrites[i].m = "PUT"
          /\ ConWrites[i].body["enable"] = FALSE
          /\ ConWrites[i].body["protocol"] = "usenet"
          /\ ConWrites[i].body["priority"] = 5
          /\ ConWrites[i].body["fields"] =
                <<[name |-> "host", value |-> "old.local"],
                  [name |-> "port", value |-> "9000"],
                  [name |-> "category"]>>
    /\ \E i \in DOMAIN ConWanted :
          /\ ConWanted[i].k = "named"
          /\ ConWrites[i].m = "POST"
          /\ ConWrites[i].body["name"] = "custom"
          /\ ConWrites[i].body["enable"] = FALSE

\* C20: when sync_contracts is called with a desired collection in which some
\* entry's implementation discriminator is missing from the fetched schema, or
\* some entry's tag label is missing from the tag map, the call raises, every
\* request it made is a GET, the deferred-deletion queue is as it was, and the
\* server holds what it held: nothing is sent for the valid entries either.
C20_FailBeforeEffect ==
    (ConDone /\ ~call.cfg.none /\ ~ConResolvable) =>
        /\ pc = "raised"
        /\ \A n \in DOMAIN Current : Current[n].m = "GET"
        /\ ConWrites = <<>>
        /\ deferred_deletes = start.dd
        /\ remote = start.remote

\* a raised call whose collection held a valid entry beside one with an
\* unknown tag label, on a server holding an entry the collection leaves out
C20_Witness ==
    /\ ConDone /\ ~call.cfg.none /\ pc = "raised" /\ failing = {}
    /\ Len(Current) = 2
    /\ \E i, j \in DOMAIN ConWanted :
          /\ ConSchemaOk(i) /\ ConTagsOk(i)
          /\ ConSchemaOk(j) /\ ~ConTagsOk(j)
    /\ \E x \in DOMAIN start.remote[call.path] :
          start.remote[call.path][x]["name"] \notin Keys(ConWanted)

(***************************************************************************)
(* The deferred-deletion queue across sync() runs on one engine            *)
(***************************************************************************)
\* C21: the deferred-deletion queue is empty when a sync() run starts, and
\* every DELETE the drain of a run issues is for a path that this run queued.
C21_QueueScoped ==
    InRun =>
        /\ start.dd = <<>>
        /\ \A i \in DOMAIN DrainRequests :
              \E j \in DOMAIN Queued : DrainRequests[i].path = Queued[j]

(***************************************************************************)
(* Resource types the declared configuration does not mention              *)
(***************************************************************************)
\* the resource types the caller left out of the configuration
OmittedKeys == DOMAIN ManagedPath \ DOMAIN start.given

\* C22: a sync() run whose requests all succeed does not raise in a phase
\* that uses a resource type the configuration omits, and issues no POST,
\* PUT or DELETE on that type's path.
C22_OmittedDefaulted ==
    (InRun /\ failing = {}) =>
        \A k \in OmittedKeys :
            /\ pc = "raised" => raisedAt \notin Readers(k)
            /\ \A i \in DOMAIN Current :
                  OnResource(Current[i], ManagedPath[k])
                      => Current[i].m \notin {"POST", "PUT", "DELETE"}

====
